---- MODULE Spec2Model ----
(***************************************************************************)
(* Model of Moody/content_based_service.py: the /recommend request         *)
(* pipeline (get_user_embeddings, find_similar_tracks, mood_aware_filter,  *)
(* recommend) over an in-memory catalog of tracks.                         *)
(*                                                                         *)
(* Strings are TLA+ strings handled with Len, SubSeq and \o.  A cell of    *)
(* the track table that may hold NaN is a record [isna, val].  Floats are  *)
(* integers: mood features in tenths, similarities in hundredths.          *)
(***************************************************************************)
EXTENDS Integers, Sequences, FiniteSets, TLC

(***************************************************************************)
(* Bounds of the model.  The four program constants below are scaled down  *)
(* from the source (100, 500, 1000 and 5) so that a catalog of a few       *)
(* tracks reaches the quota, the per-centroid neighbour count and the cap. *)
(***************************************************************************)
CatalogSize == 3
MaxSeeds == 2
FINAL_RECOMMENDATION_COUNT == 2
n_per_cluster == 2
HardCap == 3
max_clusters == 2
\* rows of the catalogs under which neighbour retrieval alone is explored
RetrievalCatalogSize == 4

DEDUPLICATION_SIMILARITY_THRESHOLD == 90

(***************************************************************************)
(* Characters and strings.                                                 *)
(***************************************************************************)
Char(s, i) == SubSeq(s, i, i)

CharSet(s) == {Char(s, i) : i \in 1..Len(s)}

UpperChars == "ABCDEFGHIJKLMNOPQRSTUVWXYZ"

LowerChars == "abcdefghijklmnopqrstuvwxyz"

DigitChars == "0123456789"

\* The characters of the model in code-point order (Python compares strings
\* by code point).
AsciiOrder == " !'()-.0123456789;ABCDEFGHIJKLMNOPQRSTUVWXYZ[]_abcdefghijklmnopqrstuvwxyz"

WhiteSpace == {" "}

UpperSet == CharSet(UpperChars)

\* \w of the regular expressions
WordChars == UpperSet \cup CharSet(LowerChars) \cup CharSet(DigitChars) \cup {"_"}

\* the characters the punctuation pattern keeps: [\w\s\-]
KeptChars == WordChars \cup WhiteSpace \cup {"-"}

CharCode(c) == CHOOSE i \in 1..Len(AsciiOrder) : Char(AsciiOrder, i) = c

LowerChar(c) ==
  IF c \in UpperSet
  THEN Char(LowerChars, CHOOSE i \in 1..Len(UpperChars) : Char(UpperChars, i) = c)
  ELSE c

RECURSIVE LowerFrom(_, _)
LowerFrom(s, i) ==
  IF i > Len(s) THEN "" ELSE LowerChar(Char(s, i)) \o LowerFrom(s, i + 1)

\* str.lower()
Lower(s) == LowerFrom(s, 1)

RECURSIVE SkipSpaces(_, _)
\* the first position >= i of s that holds no white space (Len(s)+1 if none)
SkipSpaces(s, i) ==
  IF i <= Len(s) /\ Char(s, i) \in WhiteSpace THEN SkipSpaces(s, i + 1) ELSE i

RECURSIVE LastNonSpace(_, _)
LastNonSpace(s, i) ==
  IF i >= 1 /\ Char(s, i) \in WhiteSpace THEN LastNonSpace(s, i - 1) ELSE i

\* str.strip()
Strip(s) == SubSeq(s, SkipSpaces(s, 1), LastNonSpace(s, Len(s)))

\* s[i..] starts with w
StartsWithAt(s, i, w) ==
  /\ i + Len(w) - 1 <= Len(s)
  /\ SubSeq(s, i, i + Len(w) - 1) = w

RECURSIVE FirstIn(_, _, _)
\* the first position >= i of s whose character is in set cs (0 if none)
FirstIn(s, i, cs) ==
  IF i > Len(s) THEN 0
  ELSE IF Char(s, i) \in cs THEN i ELSE FirstIn(s, i + 1, cs)

\* End of the match of  \s*[\(\[].*?[\)\]]  starting at position i (0: no match)
MatchBracket(s, i) ==
  LET q == SkipSpaces(s, i)
  IN  IF q <= Len(s) /\ Char(s, q) \in {"(", "["}
      THEN FirstIn(s, q + 1, {")", "]"})
      ELSE 0

\* The alternatives of the suffix pattern; open: followed by .*
SuffixWords ==
  << [w |-> "radio edit", open |-> FALSE], [w |-> "remix", open |-> FALSE],
     [w |-> "live", open |-> FALSE], [w |-> "acoustic", open |-> FALSE],
     [w |-> "version", open |-> FALSE], [w |-> "edit", open |-> FALSE],
     [w |-> "remastered", open |-> TRUE], [w |-> "explicit", open |-> TRUE],
     [w |-> "single version", open |-> FALSE] >>

\* End of the match of  \s*-\s*(radio edit|...|single version)  starting at
\* position i (0: no match).  The alternatives are tried in order.
MatchSuffix(s, i) ==
  LET q == SkipSpaces(s, i)
  IN  IF q <= Len(s) /\ Char(s, q) = "-"
      THEN LET r == SkipSpaces(s, q + 1)
               hits == {k \in 1..Len(SuffixWords) : StartsWithAt(s, r, SuffixWords[k].w)}
           IN  IF hits = {} THEN 0
               ELSE LET k == CHOOSE h \in hits : \A g \in hits : h <= g
                    IN  IF SuffixWords[k].open THEN Len(s)
                        ELSE r + Len(SuffixWords[k].w) - 1
      ELSE 0

RECURSIVE SubBracket(_, _)
\* re.sub(r'\s*[\(\[].*?[\)\]]', '', s) from position i on
SubBracket(s, i) ==
  IF i > Len(s) THEN ""
  ELSE LET m == MatchBracket(s, i)
       IN  IF m > 0 THEN SubBracket(s, m + 1)
           ELSE Char(s, i) \o SubBracket(s, i + 1)

RECURSIVE SubSuffix(_, _)
\* re.sub(r'\s*-\s*(...)', '', s) from position i on
SubSuffix(s, i) ==
  IF i > Len(s) THEN ""
  ELSE LET m == MatchSuffix(s, i)
       IN  IF m > 0 THEN SubSuffix(s, m + 1)
           ELSE Char(s, i) \o SubSuffix(s, i + 1)

RECURSIVE SubPunct(_, _)
\* re.sub(r'[^\w\s\-]', '', s) from position i on
SubPunct(s, i) ==
  IF i > Len(s) THEN ""
  ELSE (IF Char(s, i) \in KeptChars THEN Char(s, i) ELSE "")
       \o SubPunct(s, i + 1)

\* A table cell that holds no string (NaN)
NaNStr == [isna |-> TRUE, val |-> ""]

Str(s) == [isna |-> FALSE, val |-> s]

normalize_name(name) ==
  IF name.isna THEN ""
  ELSE LET n1 == Strip(SubBracket(Lower(name.val), 1))
           n2 == Strip(SubSuffix(n1, 1))
       IN  Strip(SubPunct(n2, 1))

(***************************************************************************)
(* fuzz.ratio: the normalized Indel similarity, 2*LCS/(len1+len2) on a     *)
(* 0..100 scale, rounded to the nearest integer (half to even).            *)
(***************************************************************************)
Max2(a, b) == IF a >= b THEN a ELSE b

\* The length of the longest common subsequence, by the usual table
Lcs(a, b) ==
  LET T[i \in 0..Len(a), j \in 0..Len(b)] ==
        IF i = 0 \/ j = 0 THEN 0
        ELSE IF Char(a, i) = Char(b, j) THEN T[i - 1, j - 1] + 1
        ELSE Max2(T[i - 1, j], T[i, j - 1])
  IN  T[Len(a), Len(b)]

\* round(n/d), halves to the even neighbour (Python's round)
RoundHalfEven(n, d) ==
  LET q == n \div d
      r == n % d
  IN  IF 2 * r < d THEN q
      ELSE IF 2 * r > d THEN q + 1
      ELSE IF q % 2 = 0 THEN q ELSE q + 1

fuzz_ratio(a, b) ==
  IF Len(a) + Len(b) = 0 THEN 100
  ELSE RoundHalfEven(200 * Lcs(a, b), Len(a) + Len(b))

(***************************************************************************)
(* get_artist_key                                                          *)
(***************************************************************************)
RECURSIVE StrLess(_, _)
\* a < b as Python compares strings
StrLess(a, b) ==
  IF Len(b) = 0 THEN FALSE
  ELSE IF Len(a) = 0 THEN TRUE
  ELSE IF Char(a, 1) = Char(b, 1)
       THEN StrLess(SubSeq(a, 2, Len(a)), SubSeq(b, 2, Len(b)))
       ELSE CharCode(Char(a, 1)) < CharCode(Char(b, 1))

RECURSIVE Split(_, _, _)
\* s.split(sep) from position i on; cur is the piece being read
Split(s, i, cur) ==
  IF i > Len(s) THEN <<cur>>
  ELSE IF Char(s, i) = ";" THEN <<cur>> \o Split(s, i + 1, "")
  ELSE Split(s, i + 1, cur \o Char(s, i))

RECURSIVE Insert(_, _)
Insert(sorted, x) ==
  IF sorted = <<>> THEN <<x>>
  ELSE IF StrLess(x, Head(sorted)) THEN <<x>> \o sorted
  ELSE <<Head(sorted)>> \o Insert(Tail(sorted), x)

RECURSIVE Sorted(_)
\* sorted(list of strings)
Sorted(l) == IF l = <<>> THEN <<>> ELSE Insert(Sorted(Tail(l)), Head(l))

RECURSIVE CleanArtists(_)
\* [a.strip().lower() for a in pieces if a.strip()]
CleanArtists(pieces) ==
  IF pieces = <<>> THEN <<>>
  ELSE (IF Strip(Head(pieces)) = "" THEN <<>> ELSE <<Lower(Strip(Head(pieces)))>>)
       \o CleanArtists(Tail(pieces))

\* The key is a tuple of names for a string, the string 'nan' for a NaN cell.
get_artist_key(artists_string) ==
  IF artists_string.isna
  THEN [kind |-> "str", names |-> <<"nan">>]
  ELSE [kind |-> "tuple", names |-> Sorted(CleanArtists(Split(artists_string.val, 1, "")))]

(***************************************************************************)
(* The catalog: preprocessed_tracks after dropna, one record per row.  A   *)
(* row's label is its position; its track_id is that number.  Embeddings   *)
(* are integer vectors of length 5, so every cosine is a whole number of   *)
(* hundredths.                                                             *)
(***************************************************************************)
NaNNum == [isna |-> TRUE, val |-> 0]

Num(n) == [isna |-> FALSE, val |-> n]

TrackPool ==
  { [track_name |-> Str("Song"), artists |-> Str("Artist A;Artist B"),
     emb |-> <<5, 0>>, energy |-> Num(9), valence |-> Num(7)],
    [track_name |-> Str("Song (Live)"), artists |-> Str("artist b; artist a"),
     emb |-> <<4, 3>>, energy |-> Num(9), valence |-> Num(2)],
    [track_name |-> Str("Songs"), artists |-> Str("Artist A;Artist B"),
     emb |-> <<4, 3>>, energy |-> Num(5), valence |-> Num(7)],
    [track_name |-> NaNStr, artists |-> Str("Artist A;Artist B"),
     emb |-> <<3, 4>>, energy |-> NaNNum, valence |-> Num(7)],
    [track_name |-> Str("Song"), artists |-> NaNStr,
     emb |-> <<5, 0>>, energy |-> Num(8), valence |-> Num(5)] }

Catalogs == UNION {[1..n -> TrackPool] : n \in 1..CatalogSize}

\* find_similar_tracks reads the embedding columns only: one track of the
\* pool for each embedding
RetrievalPool == {t \in TrackPool : t.artists = Str("Artist A;Artist B")}

\* Catalogs with more rows than the cap, so that two centroids can retrieve
\* more distinct rows than find_similar_tracks returns.
RetrievalCatalogs == UNION {[1..n -> RetrievalPool] : n \in 1..RetrievalCatalogSize}

\* Columns of the track table; the string columns cannot be compared to numbers.
Columns == {"track_id", "track_name", "artists", "energy", "valence"}

NumericColumns == {"energy", "valence"}

\* Requested seed ids: 0 is an id no catalog row has.
SeedIds == 0..2

\* The requested id lists: isin (line 24) reads a list as a set, so the lists
\* in ascending order without repeats stand for all of them.
SeedLists ==
  {q \in UNION {[1..n -> SeedIds] : n \in 0..MaxSeeds} :
     \A i, j \in DOMAIN q : i < j => q[i] < q[j]}

Range(lo, hi) == [hasmin |-> TRUE, hasmax |-> TRUE, min |-> lo, max |-> hi]

\* mood_filters: an ordered mapping, as the sequence of its items
MoodFilterSpecs ==
  { <<>>,
    << [key |-> "energy", ranges |-> Range(8, 10)],
       [key |-> "valence", ranges |-> Range(5, 10)] >>,
    << [key |-> "valence", ranges |-> [hasmin |-> TRUE, hasmax |-> FALSE, min |-> 5, max |-> 0]],
       [key |-> "tempo", ranges |-> Range(0, 10)],
       [key |-> "energy", ranges |-> Range(8, 10)] >>,
    << [key |-> "tempo", ranges |-> Range(0, 10)] >>,
    << [key |-> "track_name", ranges |-> Range(0, 10)] >> }

(***************************************************************************)
(* Generic helpers                                                         *)
(***************************************************************************)
SeqRange(q) == {q[i] : i \in DOMAIN q}

\* The orderings of a finite set
PermSeqs(S) ==
  {p \in [1..Cardinality(S) -> S] : \A i, j \in 1..Cardinality(S) : i # j => p[i] # p[j]}

RECURSIVE Flatten(_)
Flatten(qs) == IF qs = <<>> THEN <<>> ELSE Head(qs) \o Flatten(Tail(qs))

RECURSIVE FromKeys(_, _)
\* list(dict.fromkeys(q)): q without repeats, each entry at its first place
FromKeys(q, seen) ==
  IF q = <<>> THEN <<>>
  ELSE IF Head(q) \in seen THEN FromKeys(Tail(q), seen)
  ELSE <<Head(q)>> \o FromKeys(Tail(q), seen \cup {Head(q)})

\* q[:n]
Take(q, n) == SubSeq(q, 1, IF n < Len(q) THEN n ELSE Len(q))

(***************************************************************************)
(* Embeddings                                                              *)
(***************************************************************************)
Dot(a, b) == a[1] * b[1] + a[2] * b[2]

ISqrt(n) == CHOOSE r \in 0..n : r * r <= n /\ (r + 1) * (r + 1) > n

Norm(a) == ISqrt(Dot(a, a))

\* sklearn's cosine_similarity of two vectors, in hundredths
cosine_similarity(a, c) == (100 * Dot(a, c)) \div (Norm(a) * Norm(c))

RECURSIVE SumVec(_)
SumVec(vs) ==
  IF vs = <<>> THEN <<0, 0>>
  ELSE LET r == SumVec(Tail(vs)) IN <<Head(vs)[1] + r[1], Head(vs)[2] + r[2]>>

\* np.mean(embeddings, axis=0)
Mean(vs) == <<SumVec(vs)[1] \div Len(vs), SumVec(vs)[2] \div Len(vs)>>

RECURSIVE Members(_, _, _, _)
\* the points from point i on that assign puts in cluster c
Members(embeddings, assign, c, i) ==
  IF i > Len(embeddings) THEN <<>>
  ELSE (IF assign[i] = c THEN <<embeddings[i]>> ELSE <<>>)
       \o Members(embeddings, assign, c, i + 1)

\* KMeans(n_clusters=k).fit(embeddings).cluster_centers_: the means of the
\* clusters of some assignment of the points to k non-empty clusters, in some
\* order of the clusters.
KMeans(embeddings, k) ==
  { [c \in 1..k |-> Mean(Members(embeddings, assign, c, 1))] :
      assign \in {f \in [DOMAIN embeddings -> 1..k] :
                    \A c \in 1..k : \E i \in DOMAIN embeddings : f[i] = c} }

(***************************************************************************)
(* get_user_embeddings                                                     *)
(***************************************************************************)
TrackId(cat, i) == i

RECURSIVE RowsFrom(_, _, _)
\* the rows of cat from row i on whose track_id is in ids
RowsFrom(cat, ids, i) ==
  IF i > Len(cat) THEN <<>>
  ELSE (IF TrackId(cat, i) \in ids THEN <<i>> ELSE <<>>) \o RowsFrom(cat, ids, i + 1)

\* preprocessed_tracks[preprocessed_tracks['track_id'].isin(user_track_ids)]
valid_tracks(cat, ids) == RowsFrom(cat, SeqRange(ids), 1)

Min2(a, b) == IF a <= b THEN a ELSE b

\* The centroids get_user_embeddings may return (<<>> stands for None)
Centroids(cat, ids) ==
  LET rows == valid_tracks(cat, ids)
      embeddings == [i \in DOMAIN rows |-> cat[rows[i]].emb]
      n_clusters == Min2(max_clusters, Len(embeddings))
  IN  IF rows = <<>> THEN {<<>>}
      ELSE IF n_clusters > 1 THEN KMeans(embeddings, n_clusters)
      ELSE {<<Mean(embeddings)>>}

(***************************************************************************)
(* find_similar_tracks                                                     *)
(***************************************************************************)
\* The orderings of the rows in S by descending value of score, ties in any
\* order: neither kneighbors nor a default (quicksort) sort_values fixes the
\* order of equal keys.
SortDescAs(S, score) ==
  {p \in PermSeqs(S) : \A i, j \in DOMAIN p : i < j => score[p[i]] <= score[p[j]]}

SortDesc(S, score) ==
  {p \in PermSeqs(S) : \A i, j \in DOMAIN p : i < j => score[p[i]] >= score[p[j]]}

\* nn_model.kneighbors([centroid]): the n_per_cluster nearest rows, nearest first
kneighbors(cat, centroid) ==
  {Take(p, n_per_cluster) :
     p \in SortDesc(DOMAIN cat, [i \in DOMAIN cat |-> cosine_similarity(cat[i].emb, centroid)])}

RECURSIVE IndicesFrom(_, _, _)
\* the neighbour lists of the centroids from centroid c on
IndicesFrom(cat, centroids, c) ==
  IF c > Len(centroids) THEN {<<>>}
  ELSE {<<first>> \o rest : first \in kneighbors(cat, centroids[c]),
                            rest \in IndicesFrom(cat, centroids, c + 1)}

\* nn_model.kneighbors(user_centroids) (line 72): one neighbour list per centroid
kneighbors_indices(cat, centroids) == IndicesFrom(cat, centroids, 1)

unique_indices_As(all_results_indices) == Take(all_results_indices, HardCap)

\* list(dict.fromkeys(all_results_indices))[:1000]
unique_indices(all_results_indices) == Take(FromKeys(all_results_indices, {}), HardCap)

(***************************************************************************)
(* mood_aware_filter: scores and the tiered priority list                  *)
(***************************************************************************)
RECURSIVE MaxOf(_)
MaxOf(q) == IF Len(q) = 1 THEN q[1] ELSE Max2(Head(q), MaxOf(Tail(q)))

\* np.max over the centroids of the cosine similarity of row i
TrackScore(cat, centroids, i) ==
  MaxOf([c \in DOMAIN centroids |-> cosine_similarity(cat[i].emb, centroids[c])])

FeatureValue(track, feature) ==
  IF feature = "energy" THEN track.energy ELSE track.valence

\* valid_filter_keys: the items of mood_filters whose key is a column
valid_filter_keys(filters) ==
  SelectSeq(filters, LAMBDA f : f.key \in Columns)

Complete(ranges) == ranges.hasmin /\ ranges.hasmax

\* The comparison of a string column with a number raises TypeError
FilterRaises(filters) ==
  \E k \in DOMAIN valid_filter_keys(filters) :
     LET f == valid_filter_keys(filters)[k]
     IN  Complete(f.ranges) /\ f.key \notin NumericColumns

current_feature_mask_As(cat, rows, f) ==
  {i \in SeqRange(rows) :
     \/ FeatureValue(cat[i], f.key).isna
     \/ /\ FeatureValue(cat[i], f.key).val >= f.ranges.min
        /\ FeatureValue(cat[i], f.key).val <= f.ranges.max}

\* (feature_values >= min) & (feature_values <= max) & (~feature_values.isna())
current_feature_mask(cat, rows, f) ==
  {i \in SeqRange(rows) :
     /\ ~FeatureValue(cat[i], f.key).isna
     /\ FeatureValue(cat[i], f.key).val >= f.ranges.min
     /\ FeatureValue(cat[i], f.key).val <= f.ranges.max}

cumulative_mask_As(mask, current) == current

\* cumulative_mask &= current_feature_mask
cumulative_mask(mask, current) == mask \cap current

RECURSIVE Stages(_, _, _, _, _)
\* The loop over valid_filter_keys from item k on: the masks (as sets of row
\* labels) appended to filter_stages; an item without min or max is skipped.
Stages(cat, rows, keys, k, mask) ==
  IF k > Len(keys) THEN <<>>
  ELSE IF ~Complete(keys[k].ranges) THEN Stages(cat, rows, keys, k + 1, mask)
  ELSE LET m == cumulative_mask(mask, current_feature_mask(cat, rows, keys[k]))
       IN  <<m>> \o Stages(cat, rows, keys, k + 1, m)

filter_stages_of(cat, rows, filters) ==
  Stages(cat, rows, valid_filter_keys(filters), 1, SeqRange(rows))

newly_passed_As(stages, i) == stages[i]

\* current_stage_indices - stricter_stage_indices
newly_passed(stages, i) ==
  stages[i] \ (IF i + 1 <= Len(stages) THEN stages[i + 1] ELSE {})

AppendNew_As(sorted, added) == sorted

RECURSIVE AppendNew(_, _)
\* the entries of sorted that are not in added, in order
AppendNew(sorted, added) ==
  IF sorted = <<>> THEN <<>>
  ELSE (IF Head(sorted) \notin added THEN <<Head(sorted)>> ELSE <<>>)
       \o AppendNew(Tail(sorted), added)

(***************************************************************************)
(* mood_aware_filter: deduplication                                        *)
(***************************************************************************)
is_duplicate_As(current_norm_name, current_artist_key, added) ==
  /\ current_artist_key \in DOMAIN added
  /\ \E e \in SeqRange(added[current_artist_key]) :
        fuzz_ratio(current_norm_name, e.norm_name) < DEDUPLICATION_SIMILARITY_THRESHOLD

\* The check of lines 272-283 against the songs already added
is_duplicate(current_norm_name, current_artist_key, added) ==
  /\ current_artist_key \in DOMAIN added
  /\ \E e \in SeqRange(added[current_artist_key]) :
        fuzz_ratio(current_norm_name, e.norm_name) >= DEDUPLICATION_SIMILARITY_THRESHOLD

\* added_songs_by_artist after (norm_name, index) is stored under key
record_song(added, key, norm_name, index) ==
  LET before == IF key \in DOMAIN added THEN added[key] ELSE <<>>
  IN  [k \in DOMAIN added \cup {key} |->
         IF k = key THEN Append(before, [norm_name |-> norm_name, index |-> index])
         ELSE added[k]]

quota_reached_As(final) == Len(final) > FINAL_RECOMMENDATION_COUNT

\* len(final_deduplicated_indices) >= FINAL_RECOMMENDATION_COUNT
quota_reached(final) == Len(final) >= FINAL_RECOMMENDATION_COUNT

(***************************************************************************)
(* recommend                                                               *)
(***************************************************************************)
no_track_ids_As(ids) == FALSE

\* not user_track_ids
no_track_ids(ids) == ids = <<>>

RECURSIVE final_recommendations_As(_, _, _)
final_recommendations_As(final, cat, valid) ==
  IF final = <<>> THEN <<>>
  ELSE <<TrackId(cat, Head(final))>> \o final_recommendations_As(Tail(final), cat, valid)

RECURSIVE final_recommendations(_, _, _)
\* mood_filtered_tracks[~track_id.isin(valid_tracks_found)]['track_id'].tolist()
final_recommendations(final, cat, valid) ==
  IF final = <<>> THEN <<>>
  ELSE (IF TrackId(cat, Head(final)) \in SeqRange(valid) THEN <<>>
        ELSE <<TrackId(cat, Head(final))>>)
       \o final_recommendations(Tail(final), cat, valid)

NoResponse ==
  [status |-> 0, error |-> "", has_set_1 |-> FALSE, set_1 |-> <<>>,
   valid_tracks |-> <<>>, message |-> ""]

ErrorResponse(code, text, valid) ==
  [status |-> code, error |-> text, has_set_1 |-> FALSE, set_1 |-> <<>>,
   valid_tracks |-> valid, message |-> ""]

OkResponse(ids, valid, text) ==
  [status |-> 200, error |-> "", has_set_1 |-> TRUE, set_1 |-> ids,
   valid_tracks |-> valid, message |-> text]

(***************************************************************************)
(* State                                                                   *)
(***************************************************************************)
VARIABLES
  catalog,                      \* preprocessed_tracks
  pc,                           \* where the request is
  user_track_ids, mood_filters, \* the request
  user_centroids, valid_tracks_found,
  similar_tracks,               \* tracks_df, as the sequence of its row labels
  track_scores,                 \* track_scores_series
  filter_stages, stage_i,       \* the stage masks and the tier loop's index
  potential_indices, added_indices_set_tiered,
  final_deduplicated_indices, added_songs_by_artist, processed_count,
  response

vars ==
  <<catalog, pc, user_track_ids, mood_filters, user_centroids, valid_tracks_found,
    similar_tracks, track_scores, filter_stages, stage_i, potential_indices,
    added_indices_set_tiered, final_deduplicated_indices, added_songs_by_artist,
    processed_count, response>>

profile_vars == <<user_centroids, valid_tracks_found>>

priority_vars == <<filter_stages, stage_i, potential_indices, added_indices_set_tiered>>

dedup_vars == <<final_deduplicated_indices, added_songs_by_artist, processed_count>>

Init ==
  /\ catalog \in Catalogs
  /\ pc = "idle"
  /\ user_track_ids = <<>>
  /\ mood_filters = <<>>
  /\ user_centroids = <<>>
  /\ valid_tracks_found = <<>>
  /\ similar_tracks = <<>>
  /\ track_scores = <<>>
  /\ filter_stages = <<>>
  /\ stage_i = 0
  /\ potential_indices = <<>>
  /\ added_indices_set_tiered = {}
  /\ final_deduplicated_indices = <<>>
  /\ added_songs_by_artist = <<>>
  /\ processed_count = 0
  /\ response = NoResponse

(***************************************************************************)
(* recommend(): one action per step of the handler                         *)
(***************************************************************************)
\* A POST /recommend arrives (lines 316-318)
Request ==
  /\ pc = "idle"
  /\ user_track_ids' \in SeedLists
  /\ mood_filters' \in MoodFilterSpecs
  /\ pc' = "received"
  /\ UNCHANGED <<catalog, profile_vars, similar_tracks, track_scores, priority_vars,
                 dedup_vars, response>>

\* lines 321-322
RejectNoTrackIds ==
  /\ pc = "received"
  /\ no_track_ids(user_track_ids)
  /\ response' = ErrorResponse(400, "No track IDs provided", <<>>)
  /\ pc' = "done"
  /\ UNCHANGED <<catalog, user_track_ids, mood_filters, profile_vars, similar_tracks,
                 track_scores, priority_vars, dedup_vars>>

\* line 330, get_user_embeddings (lines 21-42)
GetUserEmbeddings ==
  /\ pc = "received"
  /\ ~no_track_ids(user_track_ids)
  /\ user_centroids' \in Centroids(catalog, user_track_ids)
  /\ valid_tracks_found' =
       [i \in DOMAIN valid_tracks(catalog, user_track_ids) |->
          TrackId(catalog, valid_tracks(catalog, user_track_ids)[i])]
  /\ pc' = "profiled"
  /\ UNCHANGED <<catalog, user_track_ids, mood_filters, similar_tracks, track_scores,
                 priority_vars, dedup_vars, response>>

\* lines 332-343
RejectNoValidSeeds ==
  /\ pc = "profiled"
  /\ user_centroids = <<>>
  /\ response' =
       IF Len(valid_tracks_found) > 0
       THEN ErrorResponse(400, "Could not compute user profile from valid tracks.",
                          valid_tracks_found)
       ELSE ErrorResponse(400, "None of the provided track IDs exist in our database.", <<>>)
  /\ pc' = "done"
  /\ UNCHANGED <<catalog, user_track_ids, mood_filters, profile_vars, similar_tracks,
                 track_scores, priority_vars, dedup_vars>>

\* line 348, find_similar_tracks (lines 46-83), and lines 349-355
FindSimilarTracks ==
  /\ pc = "profiled"
  /\ user_centroids # <<>>
  /\ n_per_cluster <= Len(catalog)
  /\ \E indices \in kneighbors_indices(catalog, user_centroids) :
        similar_tracks' = unique_indices(Flatten(indices))
  /\ IF similar_tracks' = <<>>
     THEN /\ response' = OkResponse(<<>>, valid_tracks_found,
                                    "No similar tracks found in the database.")
          /\ pc' = "done"
     ELSE /\ response' = response
          /\ pc' = "retrieved"
  /\ UNCHANGED <<catalog, user_track_ids, mood_filters, profile_vars, track_scores,
                 priority_vars, dedup_vars>>

\* kneighbors raises ValueError when n_neighbors exceeds the fitted rows (line 72)
KNeighborsRaises ==
  /\ pc = "profiled"
  /\ user_centroids # <<>>
  /\ n_per_cluster > Len(catalog)
  /\ pc' = "raised"
  /\ UNCHANGED <<catalog, user_track_ids, mood_filters, profile_vars, similar_tracks,
                 track_scores, priority_vars, dedup_vars, response>>

\* mood_aware_filter, lines 150-178
CalculateScores ==
  /\ pc = "retrieved"
  /\ track_scores' =
       [i \in SeqRange(similar_tracks) |-> TrackScore(catalog, user_centroids, i)]
  /\ pc' = "scored"
  /\ UNCHANGED <<catalog, user_track_ids, mood_filters, profile_vars, similar_tracks,
                 priority_vars, dedup_vars, response>>

\* lines 186-188
SortAllNoFilters ==
  /\ pc = "scored"
  /\ mood_filters = <<>>
  /\ potential_indices' \in SortDesc(SeqRange(similar_tracks), track_scores)
  /\ pc' = "dedup"
  /\ UNCHANGED <<catalog, user_track_ids, mood_filters, profile_vars, similar_tracks,
                 track_scores, filter_stages, stage_i, added_indices_set_tiered,
                 dedup_vars, response>>

\* lines 191-196
SortAllNoValidKeys ==
  /\ pc = "scored"
  /\ mood_filters # <<>>
  /\ valid_filter_keys(mood_filters) = <<>>
  /\ potential_indices' \in SortDesc(SeqRange(similar_tracks), track_scores)
  /\ pc' = "dedup"
  /\ UNCHANGED <<catalog, user_track_ids, mood_filters, profile_vars, similar_tracks,
                 track_scores, filter_stages, stage_i, added_indices_set_tiered,
                 dedup_vars, response>>

\* lines 198-213
ApplyMoodFilters ==
  /\ pc = "scored"
  /\ valid_filter_keys(mood_filters) # <<>>
  /\ ~FilterRaises(mood_filters)
  /\ filter_stages' = filter_stages_of(catalog, similar_tracks, mood_filters)
  /\ stage_i' = Len(filter_stages')
  /\ pc' = "staged"
  /\ UNCHANGED <<catalog, user_track_ids, mood_filters, profile_vars, similar_tracks,
                 track_scores, potential_indices, added_indices_set_tiered, dedup_vars,
                 response>>

\* line 209 on a column of strings
MoodFilterRaises ==
  /\ pc = "scored"
  /\ valid_filter_keys(mood_filters) # <<>>
  /\ FilterRaises(mood_filters)
  /\ pc' = "raised"
  /\ UNCHANGED <<catalog, user_track_ids, mood_filters, profile_vars, similar_tracks,
                 track_scores, priority_vars, dedup_vars, response>>

\* One turn of the loop of lines 218-232, from the strictest stage down
TierStep ==
  /\ pc = "staged"
  /\ stage_i >= 1
  /\ LET newly_passed_indices == newly_passed(filter_stages, stage_i)
     IN  IF newly_passed_indices = {}
         THEN UNCHANGED <<potential_indices, added_indices_set_tiered>>
         ELSE \E sorted_new_indices \in SortDesc(newly_passed_indices, track_scores) :
                /\ potential_indices' =
                     potential_indices \o AppendNew(sorted_new_indices, added_indices_set_tiered)
                /\ added_indices_set_tiered' =
                     added_indices_set_tiered \cup newly_passed_indices
  /\ stage_i' = stage_i - 1
  /\ UNCHANGED <<catalog, pc, user_track_ids, mood_filters, profile_vars, similar_tracks,
                 track_scores, filter_stages, dedup_vars, response>>

\* lines 237-240
AddRemaining ==
  /\ pc = "staged"
  /\ stage_i = 0
  /\ \E all_sorted_indices_fallback \in SortDesc(SeqRange(similar_tracks), track_scores) :
        potential_indices' =
          potential_indices \o AppendNew(all_sorted_indices_fallback, added_indices_set_tiered)
  /\ pc' = "dedup"
  /\ UNCHANGED <<catalog, user_track_ids, mood_filters, profile_vars, similar_tracks,
                 track_scores, filter_stages, stage_i, added_indices_set_tiered,
                 dedup_vars, response>>

\* One turn of the loop of lines 256-298 that reaches the try block
DedupStep ==
  /\ pc = "dedup"
  /\ processed_count < Len(potential_indices)
  /\ ~quota_reached(final_deduplicated_indices)
  /\ LET track_index == potential_indices[processed_count + 1]
         current_norm_name == normalize_name(catalog[track_index].track_name)
         current_artist_key == get_artist_key(catalog[track_index].artists)
     IN  IF is_duplicate(current_norm_name, current_artist_key, added_songs_by_artist)
         THEN UNCHANGED <<final_deduplicated_indices, added_songs_by_artist>>
         ELSE /\ final_deduplicated_indices' =
                   Append(final_deduplicated_indices, track_index)
              /\ added_songs_by_artist' =
                   record_song(added_songs_by_artist, current_artist_key,
                               current_norm_name, track_index)
  /\ processed_count' = processed_count + 1
  /\ UNCHANGED <<catalog, pc, user_track_ids, mood_filters, profile_vars, similar_tracks,
                 track_scores, priority_vars, response>>

\* lines 257-260: the turn that finds the quota reached leaves the loop
DedupBreak ==
  /\ pc = "dedup"
  /\ processed_count < Len(potential_indices)
  /\ quota_reached(final_deduplicated_indices)
  /\ processed_count' = processed_count + 1
  /\ pc' = "filtered"
  /\ UNCHANGED <<catalog, user_track_ids, mood_filters, profile_vars, similar_tracks,
                 track_scores, priority_vars, final_deduplicated_indices,
                 added_songs_by_artist, response>>

\* the loop of line 256 runs out of candidates
DedupExhausted ==
  /\ pc = "dedup"
  /\ processed_count = Len(potential_indices)
  /\ pc' = "filtered"
  /\ UNCHANGED <<catalog, user_track_ids, mood_filters, profile_vars, similar_tracks,
                 track_scores, priority_vars, dedup_vars, response>>

\* lines 304-310 and 360-374
Respond ==
  /\ pc = "filtered"
  /\ response' =
       OkResponse(final_recommendations(final_deduplicated_indices, catalog, valid_tracks_found),
                  valid_tracks_found, "Recommendations generated")
  /\ pc' = "done"
  /\ UNCHANGED <<catalog, user_track_ids, mood_filters, profile_vars, similar_tracks,
                 track_scores, priority_vars, dedup_vars>>

\* lines 376-383
InternalError ==
  /\ pc = "raised"
  /\ response' = ErrorResponse(500, "An unexpected error occurred.", <<>>)
  /\ pc' = "done"
  /\ UNCHANGED <<catalog, user_track_ids, mood_filters, profile_vars, similar_tracks,
                 track_scores, priority_vars, dedup_vars>>

Next ==
  \/ Request
  \/ RejectNoTrackIds
  \/ GetUserEmbeddings
  \/ RejectNoValidSeeds
  \/ FindSimilarTracks
  \/ KNeighborsRaises
  \/ CalculateScores
  \/ SortAllNoFilters
  \/ SortAllNoValidKeys
  \/ ApplyMoodFilters
  \/ MoodFilterRaises
  \/ TierStep
  \/ AddRemaining
  \/ DedupStep
  \/ DedupBreak
  \/ DedupExhausted
  \/ Respond
  \/ InternalError

Spec == Init /\ [][Next]_vars

(***************************************************************************)
(* recommend() up to the return of find_similar_tracks (line 348), over    *)
(* the larger catalogs.                                                    *)
(***************************************************************************)
InitRetrieval ==
  /\ catalog \in RetrievalCatalogs
  /\ pc = "idle"
  /\ user_track_ids = <<>>
  /\ mood_filters = <<>>
  /\ user_centroids = <<>>
  /\ valid_tracks_found = <<>>
  /\ similar_tracks = <<>>
  /\ track_scores = <<>>
  /\ filter_stages = <<>>
  /\ stage_i = 0
  /\ potential_indices = <<>>
  /\ added_indices_set_tiered = {}
  /\ final_deduplicated_indices = <<>>
  /\ added_songs_by_artist = <<>>
  /\ processed_count = 0
  /\ response = NoResponse

NextRetrieval ==
  \/ Request
  \/ RejectNoTrackIds
  \/ GetUserEmbeddings
  \/ RejectNoValidSeeds
  \/ FindSimilarTracks
  \/ KNeighborsRaises

SpecRetrieval == InitRetrieval /\ [][NextRetrieval]_vars

(***************************************************************************)
(* Vocabulary of the properties, read off the catalog rather than off the  *)
(* handler's working variables.                                            *)
(***************************************************************************)
Title(i) == normalize_name(catalog[i].track_name)

ArtistKey(i) == get_artist_key(catalog[i].artists)

\* Rows i and j are near-duplicate recordings
Similar(i, j) ==
  /\ ArtistKey(i) = ArtistKey(j)
  /\ fuzz_ratio(Title(i), Title(j)) >= DEDUPLICATION_SIMILARITY_THRESHOLD

Candidates == SeqRange(similar_tracks)

\* The mood filters that take part in the tiering: known column, min and max
EffectiveFilters ==
  SelectSeq(mood_filters, LAMBDA f : f.key \in Columns /\ f.ranges.hasmin /\ f.ranges.hasmax)

Satisfies(i, f) ==
  LET v == IF f.key = "energy" THEN catalog[i].energy ELSE catalog[i].valence
  IN  ~v.isna /\ f.ranges.min <= v.val /\ v.val <= f.ranges.max

\* The length of the longest prefix of the effective filters that row i satisfies
PrefixLen(i) ==
  Cardinality({n \in DOMAIN EffectiveFilters :
                 \A k \in 1..n : Satisfies(i, EffectiveFilters[k])})

\* The request took the tiered path (lines 198-242)
Tiered == SelectSeq(mood_filters, LAMBDA f : f.key \in Columns) # <<>>

\* The priority list is complete
PriorityBuilt == pc \in {"dedup", "filtered"} \/ (pc = "done" /\ potential_indices # <<>>)

\* The deduplication loop is over
DedupOver == pc = "filtered" \/ (pc = "done" /\ potential_indices # <<>>)

Recommended == pc = "done" /\ response.status = 200

RECURSIVE Greedy(_, _, _)
\* First-wins selection over q from position k on, out being emitted so far,
\* stopping at limit entries
Greedy(q, k, out) ==
  IF k > Len(q) \/ Len(out) >= FINAL_RECOMMENDATION_COUNT THEN out
  ELSE Greedy(q, k + 1,
              IF \E e \in SeqRange(out) : Similar(q[k], e) THEN out
              ELSE Append(out, q[k]))

RECURSIVE GreedyAll(_, _, _)
\* The same selection with no quota
GreedyAll(q, k, out) ==
  IF k > Len(q) THEN out
  ELSE GreedyAll(q, k + 1,
                 IF \E e \in SeqRange(out) : Similar(q[k], e) THEN out
                 ELSE Append(out, q[k]))

IsDescending(q) == \A i, j \in DOMAIN q : i < j => track_scores[q[i]] >= track_scores[q[j]]

\* position of row i in similar_tracks (its retrieval rank)
Rank(i) == CHOOSE k \in DOMAIN similar_tracks : similar_tracks[k] = i

(***************************************************************************)
(* C1: every recommendation response lists at most                         *)
(* FINAL_RECOMMENDATION_COUNT ids and none of the used seed ids.           *)
(***************************************************************************)
C1_QuotaAndNoSeeds ==
  (pc = "done" /\ response.has_set_1) =>
     /\ Len(response.set_1) <= FINAL_RECOMMENDATION_COUNT
     /\ \A k \in DOMAIN response.set_1 :
          response.set_1[k] \notin SeqRange(response.valid_tracks)

\* a response after the quota was reached and a seed was dropped from the list
C1_Witness ==
  /\ Recommended
  /\ response.set_1 # <<>>
  /\ Len(final_deduplicated_indices) = FINAL_RECOMMENDATION_COUNT
  /\ \E k \in DOMAIN final_deduplicated_indices :
        final_deduplicated_indices[k] \in SeqRange(valid_tracks_found)

(***************************************************************************)
(* C2: any two distinct tracks of the deduplication output with the same   *)
(* artist key have normalized titles of similarity below the threshold.    *)
(***************************************************************************)
C2_NoSimilarPair ==
  \A a, b \in DOMAIN final_deduplicated_indices :
     (a # b /\ ArtistKey(final_deduplicated_indices[a]) = ArtistKey(final_deduplicated_indices[b]))
       => fuzz_ratio(Title(final_deduplicated_indices[a]), Title(final_deduplicated_indices[b]))
            < DEDUPLICATION_SIMILARITY_THRESHOLD

\* two tracks of one artist key were kept and a duplicate was dropped
C2_Witness ==
  /\ pc = "filtered"
  /\ Len(final_deduplicated_indices) = 2
  /\ ArtistKey(final_deduplicated_indices[1]) = ArtistKey(final_deduplicated_indices[2])
  /\ \E k \in 1..processed_count :
        /\ k <= Len(potential_indices)
        /\ potential_indices[k] \notin SeqRange(final_deduplicated_indices)
        /\ Similar(potential_indices[k], final_deduplicated_indices[1])

(***************************************************************************)
(* C3: for every mood-filter mapping the priority list built before        *)
(* deduplication is a permutation of the candidate set: every candidate    *)
(* exactly once and nothing else.                                          *)
(***************************************************************************)
C3_PriorityIsPermutation ==
  PriorityBuilt =>
     /\ SeqRange(potential_indices) = Candidates
     /\ Len(potential_indices) = Cardinality(Candidates)

\* three candidates, one in each of the tiers 2, 1 and 0
C3_Witness ==
  /\ pc = "dedup"
  /\ Tiered
  /\ Len(filter_stages) = 2
  /\ {PrefixLen(i) : i \in Candidates} = {0, 1, 2}

(***************************************************************************)
(* C4: in the tiered priority list a candidate that satisfies a longer     *)
(* prefix of the ordered mood filters comes before one that satisfies a    *)
(* shorter prefix.                                                         *)
(***************************************************************************)
C4_TierOrder ==
  (PriorityBuilt /\ Tiered) =>
     \A p, q \in DOMAIN potential_indices :
        PrefixLen(potential_indices[p]) > PrefixLen(potential_indices[q]) => p < q

\* candidates in each of the tiers 2, 1 and 0, one of them listed before a
\* better-scored candidate of a lower tier
C4_Witness ==
  /\ pc = "dedup"
  /\ Len(EffectiveFilters) = 2
  /\ {PrefixLen(i) : i \in Candidates} = {0, 1, 2}
  /\ \E p, q \in DOMAIN potential_indices :
        /\ p < q
        /\ PrefixLen(potential_indices[p]) > PrefixLen(potential_indices[q])
        /\ track_scores[potential_indices[p]] < track_scores[potential_indices[q]]

(***************************************************************************)
(* C5: with every seed in the catalog and no mood filters, the response    *)
(* lists min(quota, number of distinct non-seed neighbours left after      *)
(* deduplication) ids, none of them a seed.                                *)
(***************************************************************************)
NonSeedAfterDedup ==
  {i \in SeqRange(GreedyAll(potential_indices, 1, <<>>)) :
     TrackId(catalog, i) \notin SeqRange(valid_tracks_found)}

C5_LengthIsMinQuota ==
  (Recommended /\ mood_filters = <<>>
     /\ \A k \in DOMAIN user_track_ids : user_track_ids[k] \in SeqRange(valid_tracks_found)) =>
     /\ Len(response.set_1) =
          Min2(FINAL_RECOMMENDATION_COUNT, Cardinality(NonSeedAfterDedup))
     /\ \A k \in DOMAIN response.set_1 :
          response.set_1[k] \notin SeqRange(valid_tracks_found)

(***************************************************************************)
(* C6: when no candidate satisfies the mood filter, the response is the    *)
(* similarity-ordered, deduplicated list that the request gets without     *)
(* mood filters.  As claimed, the returned list is then non-empty whenever *)
(* the candidate set is; as amended, the deduplicated list is, before the  *)
(* seed ids are taken out of it.                                           *)
(***************************************************************************)
NoneSatisfies ==
  /\ EffectiveFilters # <<>>
  /\ \A i \in Candidates : ~Satisfies(i, EffectiveFilters[1])

FallsBackToSimilarity ==
  /\ SeqRange(potential_indices) = Candidates
  /\ Len(potential_indices) = Cardinality(Candidates)
  /\ IsDescending(potential_indices)
  /\ final_deduplicated_indices = Greedy(potential_indices, 1, <<>>)
  /\ response.set_1 =
       SelectSeq(final_deduplicated_indices,
                 LAMBDA i : TrackId(catalog, i) \notin SeqRange(valid_tracks_found))

C6_FallbackNeverEmpty ==
  (Recommended /\ NoneSatisfies) =>
     /\ FallsBackToSimilarity
     /\ Candidates # {} => response.set_1 # <<>>

C6_FallbackDedupNonEmpty ==
  (Recommended /\ NoneSatisfies) =>
     /\ FallsBackToSimilarity
     /\ Candidates # {} => final_deduplicated_indices # <<>>

\* a fallback response that lists a track although a candidate has NaN energy
C6_Witness ==
  /\ Recommended
  /\ NoneSatisfies
  /\ response.set_1 # <<>>
  /\ \E i \in Candidates : catalog[i].energy.isna
  /\ \E i, j \in Candidates : track_scores[i] # track_scores[j]

(***************************************************************************)
(* C7: deduplication never emits a candidate whose title or artists field  *)
(* is missing, and treats the others as if it had not been in the list.    *)
(***************************************************************************)
HasFields(i) == ~catalog[i].track_name.isna /\ ~catalog[i].artists.isna

C7_MissingFieldsSkipped ==
  DedupOver =>
     /\ \A k \in DOMAIN final_deduplicated_indices : HasFields(final_deduplicated_indices[k])
     /\ final_deduplicated_indices =
          Greedy(SelectSeq(potential_indices, HasFields), 1, <<>>)

(***************************************************************************)
(* C8: an empty seed list ends in the "No track IDs provided" failure and  *)
(* a seed list that matches no catalog row in the "None of the provided    *)
(* track IDs exist" failure with an empty list of used seeds; neither      *)
(* retrieves neighbours, filters, deduplicates or returns recommendations. *)
(***************************************************************************)
NothingComputed ==
  /\ similar_tracks = <<>>
  /\ track_scores = <<>>
  /\ filter_stages = <<>>
  /\ potential_indices = <<>>
  /\ final_deduplicated_indices = <<>>
  /\ processed_count = 0
  /\ ~response.has_set_1

NoSeedMatches == \A k \in DOMAIN user_track_ids : user_track_ids[k] \notin DOMAIN catalog

C8_SeedFailuresAreTerminal ==
  /\ (pc \notin {"idle", "received"} /\ user_track_ids = <<>>) =>
        /\ pc = "done"
        /\ response.status = 400
        /\ response.error = "No track IDs provided"
        /\ NothingComputed
  /\ (pc \notin {"idle", "received", "profiled"} /\ user_track_ids # <<>> /\ NoSeedMatches) =>
        /\ pc = "done"
        /\ response.status = 400
        /\ response.error = "None of the provided track IDs exist in our database."
        /\ response.valid_tracks = <<>>
        /\ NothingComputed

\* the failure for a seed list of one unknown id
C8_Witness ==
  /\ pc = "done"
  /\ user_track_ids = <<0>>
  /\ response.status = 400
  /\ Len(catalog) >= n_per_cluster

(***************************************************************************)
(* C9: the deduplication output is the greedy first-wins selection over    *)
(* the priority list: in priority order, until the quota is reached, a     *)
(* candidate is emitted iff no emitted one is Similar to it.  So the       *)
(* output is a subsequence of the priority list.                           *)
(***************************************************************************)
IsSubsequence(a, b) ==
  \E f \in [DOMAIN a -> DOMAIN b] :
     /\ \A i \in DOMAIN a : b[f[i]] = a[i]
     /\ \A i, j \in DOMAIN a : i < j => f[i] < f[j]

C9_GreedyFirstWins ==
  (pc \in {"dedup", "filtered"} \/ Recommended) =>
     /\ final_deduplicated_indices =
          Greedy(SubSeq(potential_indices, 1, Min2(processed_count, Len(potential_indices))),
                 1, <<>>)
     /\ IsSubsequence(final_deduplicated_indices, potential_indices)

\* the first of two near-duplicates survived, the second was dropped, and a
\* later candidate was emitted after it
C9_Witness ==
  /\ pc = "filtered"
  /\ Len(potential_indices) = 3
  /\ Similar(potential_indices[1], potential_indices[2])
  /\ final_deduplicated_indices = <<potential_indices[1], potential_indices[3]>>

(***************************************************************************)
(* C10: wherever candidates are ordered by similarity (the whole list      *)
(* without usable mood filters, each tier, the remainder) they are in      *)
(* descending score order; as claimed, equal scores keep retrieval order.  *)
(***************************************************************************)
SameSegment(i, j) == PrefixLen(i) = PrefixLen(j)

C10_DescendingWithinSegments ==
  PriorityBuilt =>
     \A p, q \in DOMAIN potential_indices :
        (p < q /\ SameSegment(potential_indices[p], potential_indices[q])) =>
           track_scores[potential_indices[p]] >= track_scores[potential_indices[q]]

C10_StableDescending ==
  PriorityBuilt =>
     \A p, q \in DOMAIN potential_indices :
        (p < q /\ SameSegment(potential_indices[p], potential_indices[q])) =>
           \/ track_scores[potential_indices[p]] > track_scores[potential_indices[q]]
           \/ /\ track_scores[potential_indices[p]] = track_scores[potential_indices[q]]
              /\ Rank(potential_indices[p]) < Rank(potential_indices[q])

\* a tier of two candidates with different scores, listed against their
\* retrieval order
C10_Witness ==
  /\ pc = "dedup"
  /\ Tiered
  /\ \E p, q \in DOMAIN potential_indices :
        /\ p < q
        /\ SameSegment(potential_indices[p], potential_indices[q])
        /\ track_scores[potential_indices[p]] > track_scores[potential_indices[q]]
        /\ Rank(potential_indices[p]) > Rank(potential_indices[q])

(***************************************************************************)
(* C11: for every non-empty list of centroids, the candidates that         *)
(* neighbour retrieval returns are the per-centroid neighbour lists        *)
(* concatenated in centroid order, reduced to the first occurrence of each *)
(* track, then cut to the hard cap; so they are never more than the cap    *)
(* and never hold the same track twice.                                    *)
(***************************************************************************)
\* find_similar_tracks has returned for a non-empty list of centroids
Retrieved ==
  /\ pc \notin {"idle", "received", "profiled"}
  /\ user_centroids # <<>>
  /\ n_per_cluster <= Len(catalog)

\* the results kneighbors can give: one neighbour list per centroid
NeighbourLists == kneighbors_indices(catalog, user_centroids)

\* the lists one after the other, in the order of their centroids
Concatenation(lists) ==
  [n \in 1..(Len(lists) * n_per_cluster) |->
     lists[((n - 1) \div n_per_cluster) + 1][((n - 1) % n_per_cluster) + 1]]

\* the positions of q that hold the first occurrence of their track
FirstPositions(q) == {i \in DOMAIN q : \A j \in 1..(i - 1) : q[j] # q[i]}

\* q without the later occurrences of a track, the order otherwise kept
FirstSeen(q) ==
  [k \in 1..Cardinality(FirstPositions(q)) |->
     q[CHOOSE i \in FirstPositions(q) :
         Cardinality({j \in FirstPositions(q) : j <= i}) = k]]

\* a is the first Len(a) entries of b
IsPrefix(a, b) == Len(a) <= Len(b) /\ \A k \in DOMAIN a : a[k] = b[k]

C11_ConcatDedupCap ==
  Retrieved =>
     /\ Len(similar_tracks) <= HardCap
     /\ \A i, j \in DOMAIN similar_tracks : i # j => similar_tracks[i] # similar_tracks[j]
     /\ \E lists \in NeighbourLists :
           LET merged == FirstSeen(Concatenation(lists))
           IN  /\ IsPrefix(similar_tracks, merged)
               /\ Len(similar_tracks) = Min2(HardCap, Len(merged))

\* two centroids whose neighbour lists hold more distinct tracks than the cap:
\* the merged list is cut
C11_Witness ==
  /\ pc = "retrieved"
  /\ Len(user_centroids) = 2
  /\ Len(similar_tracks) = HardCap
  /\ \E lists \in NeighbourLists :
        /\ IsPrefix(similar_tracks, FirstSeen(Concatenation(lists)))
        /\ Len(FirstSeen(Concatenation(lists))) > HardCap
====
